---- MODULE Spec2Model ----
(***************************************************************************)
(* ShopUz backend: cart ledger (CartService) and order lifecycle           *)
(* (OrderService) over the shared relational store reached through Prisma. *)
(*                                                                         *)
(* Every request runs in a slot r of Reqs.  A service method is split at   *)
(* its `await`s on the database: each action is the code between two       *)
(* awaits, so two requests interleave exactly where the Node event loop    *)
(* lets them.  Writes made inside prisma.$transaction are invisible until  *)
(* the commit step and are dropped when the transaction fails.             *)
(*                                                                         *)
(* Money is kept exactly: prices in cents, sums in 1/100 cent (price in    *)
(* cents times quantity times 100), so Math.round(x * 100) / 100 is        *)
(* Round2 below.  A cart row is identified by its unique                   *)
(* (userId, productId) pair.                                               *)
(***************************************************************************)
EXTENDS Integers, Sequences, FiniteSets, TLC

\* ---------------------------------------------------------------- bounds
MaxStock == 2
MaxOrders == 1

\* ------------------------------------------------------------- universes
Products == {"A", "B"}

\* a product id that is in no row of the product table
MissingProduct == "missing"

ProductIds == Products \cup {MissingProduct}

Users == {"u1", "u2"}

\* userId argument left out (admin path of the controllers)
NoUser == "-"

Reqs == {1, 2}

\* the seeded administrator account
Admin == "admin"

Accounts == Users \cup {Admin}

USER == "USER"

ADMIN == "ADMIN"

Roles == {USER, ADMIN}

\* user.findUnique found no row
NoRow == "no row"

\* a request without a token that verifies (absent, forged or expired)
NoToken == [userId |-> NoUser, role |-> ""]

PENDING == "PENDING"

CONFIRMED == "CONFIRMED"

PROCESSING == "PROCESSING"

SHIPPED == "SHIPPED"

DELIVERED == "DELIVERED"

CANCELLED == "CANCELLED"

RETURNED == "RETURNED"

OrderStatus == {PENDING, CONFIRMED, PROCESSING, SHIPPED, DELIVERED, CANCELLED, RETURNED}

PAID == "PAID"

FAILED == "FAILED"

REFUNDED == "REFUNDED"

PaymentStatus == {PENDING, PAID, FAILED, REFUNDED}

PaymentMethods == {"card", "cash"}

\* shipping data of a checkout form (name, email, phone, address, city)
Addresses == {"home", "office"}

\* ------------------------------------------------------------------ state
VARIABLES
  stock,       \* Product.stock      : [Products -> Int]
  price,       \* Product.price      : [Products -> cents]
  discount,    \* Product.discount   : [Products -> 0..100], 0 also stands for null
  cart,        \* CartItem rows      : [Users -> [Products -> quantity]], 0 = no row
  orders,      \* Order rows         : sequence, the order id is the index
  orderItems,  \* OrderItem rows     : set of [orderId, productId, quantity, price]
  users,       \* User.role          : [Accounts -> role], NoRow = no such user
  tokens,      \* access tokens signed so far : set of [userId, role] payloads
  req          \* requests in flight : [Reqs -> locals of the running method]

vars == <<stock, price, discount, cart, orders, orderItems, users, tokens, req>>

db == <<stock, price, discount, cart, orders, orderItems>>

\* the user table and the access tokens in circulation
auth == <<users, tokens>>

\* ---------------------------------------------------------------- helpers
ZeroQty == [p \in Products |-> 0]

RECURSIVE SumOver(_, _)
SumOver(S, f) ==
  IF S = {} THEN 0
  ELSE LET x == CHOOSE y \in S : TRUE IN f[x] + SumOver(S \ {x}, f)

\* Math.round(x * 100) / 100 on a non-negative amount held in 1/100 cent;
\* the result is in cents.  Math.round rounds halves up.
Round2(x) == (x + 50) \div 100

Ok == <<"ok">>

Err(msg) == <<"error", msg>>

IsOk(res) == Len(res) > 0 /\ res[1] = "ok"

IsErr(res) == Len(res) > 0 /\ res[1] = "error"

\* locals of a request slot that is not running anything
ReqIdle ==
  [pc |-> "idle", op |-> "none", user |-> NoUser, prod |-> MissingProduct,
   qty |-> 0, order |-> 0, arg |-> "", addr |-> "", tok |-> NoToken, authRole |-> "",
   readStock |-> 0, readStatus |-> "",
   snapQty |-> ZeroQty, snapStock |-> ZeroQty, snapUnit |-> ZeroQty,
   snapTotal |-> 0, todo |-> {}, stage |-> 0,
   removedItems |-> <<>>, updatedItems |-> <<>>, result |-> <<>>]

Free(r) == req[r].pc \in {"idle", "done"}

\* a method returns or throws: its locals are gone; its name, its arguments,
\* the status it read and its outcome remain
Done(e, res) ==
  [ReqIdle EXCEPT !.pc = "done", !.op = e.op, !.user = e.user, !.prod = e.prod,
                  !.qty = e.qty, !.order = e.order, !.arg = e.arg, !.tok = e.tok,
                  !.readStatus = e.readStatus, !.result = res]

Finish(r, res) == [req EXCEPT ![r] = Done(req[r], res)]

\* a method is entered with its arguments
Enter(r, op, u, p, q, o, a) ==
  [ReqIdle EXCEPT !.pc = "run", !.op = op, !.user = u, !.prod = p,
                  !.qty = q, !.order = o, !.arg = a]

\* ---------------------------------------------------------- CartService
\* calculateCartSummary over the rows qtys of one user, with the product
\* columns pr (price) and di (discount) that were included by the query
\* a slip: totalItems counts the rows
CartTotalRows(qtys) == Cardinality({p \in Products : qtys[p] > 0})

\* totalItems += itemQuantity over the rows
CartTotalItems(qtys) == SumOver(Products, qtys)

CartSubtotalRaw(qtys, pr) ==
  SumOver(Products, [p \in Products |-> pr[p] * qtys[p] * 100])

CartDiscountRaw(qtys, pr, di) ==
  SumOver(Products, [p \in Products |-> pr[p] * qtys[p] * di[p]])

\* a slip: the discount of every line is rounded before it is added
calculateCartSummaryPerLine(qtys, pr, di) ==
  LET lineDiscount == SumOver(Products, [p \in Products |-> Round2(pr[p] * qtys[p] * di[p])])
  IN [totalItems |-> CartTotalItems(qtys),
      subtotal |-> Round2(CartSubtotalRaw(qtys, pr)),
      discount |-> lineDiscount,
      total |-> Round2(CartSubtotalRaw(qtys, pr)) - lineDiscount]

calculateCartSummary(qtys, pr, di) ==
  [totalItems |-> CartTotalItems(qtys),
   subtotal |-> Round2(CartSubtotalRaw(qtys, pr)),
   discount |-> Round2(CartDiscountRaw(qtys, pr, di)),
   total |-> Round2(CartSubtotalRaw(qtys, pr) - CartDiscountRaw(qtys, pr, di))]

\* getCart: cartItem.findMany with the products, then the summary
getCart(r, u) ==
  /\ Free(r)
  /\ req' = [req EXCEPT ![r] =
       Done(Enter(r, "getCart", u, MissingProduct, 0, 0, ""),
            <<"ok", calculateCartSummary(cart[u], price, discount)>>)]
  /\ UNCHANGED <<db, auth>>

\* cartItem.aggregate _sum.quantity as a sequence: empty for the null that
\* the database returns over no rows, else the one number
AggregateSumQuantity(qtys) ==
  IF \A p \in Products : qtys[p] = 0 THEN <<>> ELSE <<CartTotalItems(qtys)>>

\* getCartItemCount: result._sum.quantity || 0
getCartItemCount(r, u) ==
  /\ Free(r)
  /\ LET sum == AggregateSumQuantity(cart[u])
         count == IF sum = <<>> \/ sum = <<0>> THEN 0 ELSE sum[1]
     IN req' = [req EXCEPT ![r] =
          Done(Enter(r, "getCartItemCount", u, MissingProduct, 0, 0, ""), <<"ok", count>>)]
  /\ UNCHANGED <<db, auth>>

\* the status that CartController.addToCart answers with, from the outcome
\* of the service call: 404 for the missing product, 400 for the messages
\* that mention the stock or what is available
AddToCartStatus(res) ==
  IF IsOk(res) THEN 201
  ELSE IF res[2] = "Product not found" THEN 404
  ELSE IF res[2] \in {"Only items available in stock", "Cannot add more items"} THEN 400
  ELSE 500

\* addToCart, up to the first await: product.findUnique and the stock check
AddReadProduct(r, u, p, q) ==
  /\ Free(r)
  /\ LET e == Enter(r, "addToCart", u, p, q, 0, "") IN
     req' = [req EXCEPT ![r] =
       IF p \notin Products
         THEN Done(e, Err("Product not found"))
       ELSE IF stock[p] < q
         THEN Done(e, <<"error", "Only items available in stock", stock[p]>>)
       ELSE [e EXCEPT !.pc = "add_find", !.readStock = stock[p]]]
  /\ UNCHANGED <<db, auth>>

\* a slip: only the added quantity is held against the stock
AddExceedsStockNewOnly(existing, q, st) == q > st

\* newQuantity > product.stock, with newQuantity = existingCartItem.quantity + quantity
AddExceedsStock(existing, q, st) == existing + q > st

\* cartItem.findUnique on (userId, productId) and the check of the new quantity
AddFindExisting(r) ==
  /\ req[r].pc = "add_find"
  /\ LET u == req[r].user
         p == req[r].prod
         existing == cart[u][p]
         newQuantity == existing + req[r].qty
     IN req' =
          IF existing > 0
            THEN IF AddExceedsStock(existing, req[r].qty, req[r].readStock)
                   THEN Finish(r, <<"error", "Cannot add more items", req[r].readStock - existing>>)
                   ELSE [req EXCEPT ![r].pc = "add_update", ![r].snapQty = [ZeroQty EXCEPT ![p] = newQuantity]]
            ELSE [req EXCEPT ![r].pc = "add_create"]
  /\ UNCHANGED <<db, auth>>

\* cartItem.update of the row found; Prisma throws when the row is gone
AddUpdate(r) ==
  /\ req[r].pc = "add_update"
  /\ LET u == req[r].user
         p == req[r].prod
     IN IF cart[u][p] > 0
          THEN /\ cart' = [cart EXCEPT ![u][p] = req[r].snapQty[p]]
               /\ req' = Finish(r, Ok)
          ELSE /\ cart' = cart
               /\ req' = Finish(r, Err("Record to update not found"))
  /\ UNCHANGED <<stock, price, discount, orders, orderItems, users, tokens>>

\* a slip: no unique key on (userId, productId), every insert is accepted
NoUniqueKey(u, p) == TRUE

\* the unique key on (userId, productId) of the CartItem table accepts a row
\* for the pair only while there is none
UniqueKeyAccepts(u, p) == cart[u][p] = 0

\* cartItem.create; the unique key (userId, productId) rejects a second row
AddCreate(r) ==
  /\ req[r].pc = "add_create"
  /\ LET u == req[r].user
         p == req[r].prod
     IN IF UniqueKeyAccepts(u, p)
          THEN /\ cart' = [cart EXCEPT ![u][p] = req[r].qty]
               /\ req' = Finish(r, Ok)
          ELSE /\ cart' = cart
               /\ req' = Finish(r, Err("Unique constraint failed"))
  /\ UNCHANGED <<stock, price, discount, orders, orderItems, users, tokens>>

\* the status that CartController.updateCartItem answers with: 400 from its
\* own check of the quantity q, else from the outcome of the service call
UpdateCartItemStatus(q, res) ==
  IF q <= 0 THEN 400
  ELSE IF IsOk(res) THEN 200
  ELSE IF res[2] = "Cart item not found" THEN 404
  ELSE IF res[2] = "Only items available in stock" THEN 400
  ELSE 500

\* a slip: the new quantity is not held against the stock
UpdateFindItemAnyStock(r, u, owner, p, q) ==
  /\ Free(r)
  /\ LET e == [Enter(r, "updateCartItem", u, p, q, 0, "") EXCEPT !.arg = owner] IN
     req' = [req EXCEPT ![r] =
       IF q <= 0
         THEN Done(e, Err("Quantity must be greater than 0"))
       ELSE IF owner # u \/ p \notin Products \/ cart[owner][p] = 0
         THEN Done(e, Err("Cart item not found"))
       ELSE [e EXCEPT !.pc = "upd_write"]]
  /\ UNCHANGED <<db, auth>>

\* updateCartItem, up to the first await: quantity check, cartItem.findFirst
\* on (id, userId) with its product, stock check.  item is the row id, the
\* (owner, product) pair of the row.
UpdateFindItem(r, u, owner, p, q) ==
  /\ Free(r)
  /\ LET e == [Enter(r, "updateCartItem", u, p, q, 0, "") EXCEPT !.arg = owner] IN
     req' = [req EXCEPT ![r] =
       IF q <= 0
         THEN Done(e, Err("Quantity must be greater than 0"))
       ELSE IF owner # u \/ p \notin Products \/ cart[owner][p] = 0
         THEN Done(e, Err("Cart item not found"))
       ELSE IF q > stock[p]
         THEN Done(e, <<"error", "Only items available in stock", stock[p]>>)
       ELSE [e EXCEPT !.pc = "upd_write"]]
  /\ UNCHANGED <<db, auth>>

\* cartItem.update by id
UpdateWrite(r) ==
  /\ req[r].pc = "upd_write"
  /\ LET u == req[r].user
         p == req[r].prod
     IN IF cart[u][p] > 0
          THEN /\ cart' = [cart EXCEPT ![u][p] = req[r].qty]
               /\ req' = Finish(r, Ok)
          ELSE /\ cart' = cart
               /\ req' = Finish(r, Err("Record to update not found"))
  /\ UNCHANGED <<stock, price, discount, orders, orderItems, users, tokens>>

\* removeFromCart, up to the first await: cartItem.findFirst on (id, userId)
RemoveFindItem(r, u, owner, p) ==
  /\ Free(r)
  /\ LET e == [Enter(r, "removeFromCart", u, p, 0, 0, "") EXCEPT !.arg = owner] IN
     req' = [req EXCEPT ![r] =
       IF owner # u \/ p \notin Products \/ cart[owner][p] = 0
         THEN Done(e, Err("Cart item not found"))
       ELSE [e EXCEPT !.pc = "rem_delete"]]
  /\ UNCHANGED <<db, auth>>

\* cartItem.delete by id
RemoveDelete(r) ==
  /\ req[r].pc = "rem_delete"
  /\ LET u == req[r].user
         p == req[r].prod
     IN IF cart[u][p] > 0
          THEN /\ cart' = [cart EXCEPT ![u][p] = 0]
               /\ req' = Finish(r, Ok)
          ELSE /\ cart' = cart
               /\ req' = Finish(r, Err("Record to delete does not exist"))
  /\ UNCHANGED <<stock, price, discount, orders, orderItems, users, tokens>>

\* clearCart: one cartItem.deleteMany
clearCart(r, u) ==
  /\ Free(r)
  /\ cart' = [cart EXCEPT ![u] = ZeroQty]
  /\ req' = [req EXCEPT ![r] = Done(Enter(r, "clearCart", u, MissingProduct, 0, 0, ""), Ok)]
  /\ UNCHANGED <<stock, price, discount, orders, orderItems, users, tokens>>

\* the errors array of validateCart over rows qtys read with stock column st
CartIsEmpty(qtys) == \A p \in Products : qtys[p] = 0

OverStock(qtys, st) == {p \in Products : qtys[p] > 0 /\ st[p] < qtys[p]}

validateCartIsValid(qtys, st) == ~CartIsEmpty(qtys) /\ OverStock(qtys, st) = {}

\* syncCartWithStock, up to the first await: cartItem.findMany with product
SyncRead(r, u) ==
  /\ Free(r)
  /\ LET e == Enter(r, "syncCartWithStock", u, MissingProduct, 0, 0, "")
         rows == {p \in Products : cart[u][p] > 0}
     IN req' = [req EXCEPT ![r] =
          IF rows = {}
            THEN Done(e, <<"ok", <<>>, <<>>>>)
            ELSE [e EXCEPT !.pc = "sync_loop", !.snapQty = cart[u],
                           !.snapStock = stock, !.todo = rows]]
  /\ UNCHANGED <<db, auth>>

\* a slip: the out-of-stock branch is missing, so a row at stock 0 is clamped
SyncRowActionClampOnly(qty, st) == IF qty > st THEN "clamp" ELSE "keep"

\* what one turn of the loop does to the row of product p, from the values
\* read by the findMany: delete at stock 0, clamp above stock, else nothing
SyncRowAction(qty, st) ==
  IF st = 0 THEN "delete"
  ELSE IF qty > st THEN "clamp"
  ELSE "keep"

\* one turn of the for loop of syncCartWithStock (the rows come in the
\* order the database returned them, which the query does not fix)
SyncStep(r, p) ==
  /\ req[r].pc = "sync_loop"
  /\ p \in req[r].todo
  /\ LET u == req[r].user
         act == SyncRowAction(req[r].snapQty[p], req[r].snapStock[p])
         rest == req[r].todo \ {p}
         removed == IF act = "delete" THEN Append(req[r].removedItems, p)
                    ELSE req[r].removedItems
         updated == IF act = "clamp"
                      THEN Append(req[r].updatedItems, <<p, req[r].snapStock[p]>>)
                    ELSE req[r].updatedItems
     IN IF act # "keep" /\ cart[u][p] = 0
          THEN \* the row was deleted meanwhile: delete / update by id throws
               /\ cart' = cart
               /\ req' = Finish(r, Err("Record not found"))
          ELSE /\ cart' = [cart EXCEPT ![u][p] =
                            IF act = "delete" THEN 0
                            ELSE IF act = "clamp" THEN req[r].snapStock[p]
                            ELSE @]
               /\ req' = IF rest = {}
                           THEN Finish(r, <<"ok", removed, updated>>)
                           ELSE [req EXCEPT ![r].todo = rest,
                                            ![r].removedItems = removed,
                                            ![r].updatedItems = updated]
  /\ UNCHANGED <<stock, price, discount, orders, orderItems, users, tokens>>

\* --------------------------------------------------------- OrderService
\* quantity per product over the OrderItem rows of order o (order.items)
OrderQty(o) ==
  [p \in Products |->
     SumOver({i \in orderItems : i.orderId = o /\ i.productId = p},
             [i \in orderItems |-> i.quantity])]

\* a slip: the unit price is rounded to whole cents before it is stored
OrderItemPriceRounded(pr, di) == 100 * Round2(pr * (100 - di))

\* the unit price stored on an order item, in 1/100 cent:
\* discount ? price * (1 - discount / 100) : price
OrderItemPrice(pr, di) == IF di # 0 THEN pr * (100 - di) ELSE pr * 100

\* createOrder, up to the transaction: CartService.validateCart (one
\* cartItem.findMany with the products), the two throws, the snapshot `cart`;
\* orderData is the payment method pm and the shipping data addr
CreateOrderValidateData(r, u, pm, addr) ==
  /\ Free(r)
  /\ LET e == [Enter(r, "createOrder", u, MissingProduct, 0, 0, pm) EXCEPT !.addr = addr]
         qtys == cart[u]
     IN req' = [req EXCEPT ![r] =
          IF ~validateCartIsValid(qtys, stock)
            THEN Done(e, <<"error", "Cart validation failed", CartIsEmpty(qtys), OverStock(qtys, stock)>>)
          ELSE IF CartIsEmpty(qtys)
            THEN Done(e, Err("Cart is empty"))
            ELSE [e EXCEPT !.pc = "co_tx", !.snapQty = qtys,
                           !.snapUnit = [p \in Products |-> OrderItemPrice(price[p], discount[p])],
                           !.snapTotal = calculateCartSummary(qtys, price, discount).total]]
  /\ UNCHANGED <<db, auth>>

\* createOrder with the shipping data of the customer's home
CreateOrderValidate(r, u, pm) == CreateOrderValidateData(r, u, pm, "home")

\* JSON.stringify of the shipping fields of orderData
ShippingAddress(addr) == <<"json", addr>>

\* the Order row written by tx.order.create
NewOrder(r) ==
  [userId |-> req[r].user, status |-> PENDING, totalAmount |-> req[r].snapTotal,
   shippingAddress |-> ShippingAddress(req[r].addr),
   paymentMethod |-> req[r].arg,
   paymentStatus |-> IF req[r].arg = "cash" THEN PENDING ELSE PENDING]

\* the OrderItem rows written by tx.orderItem.create, one per cart item read
NewOrderItems(r, id) ==
  {[orderId |-> id, productId |-> p, quantity |-> req[r].snapQty[p],
    price |-> req[r].snapUnit[p]] : p \in {x \in Products : req[r].snapQty[x] > 0}}

\* a slip: every ordered product loses one unit, whatever the quantity
DecrementStockByOne(st, qtys) == [p \in Products |-> IF qtys[p] > 0 THEN st[p] - 1 ELSE st[p]]

\* stock: { decrement: cartItem.quantity } for every cart item read
DecrementStock(st, qtys) == [p \in Products |-> st[p] - qtys[p]]

\* the first n writes of the createOrder transaction, in program order:
\* order.create, orderItem.create, product.update, cartItem.deleteMany
CreateOrderWrites(r, n) ==
  /\ orders' = IF n >= 1 THEN Append(orders, NewOrder(r)) ELSE orders
  /\ orderItems' = IF n >= 2 THEN orderItems \cup NewOrderItems(r, Len(orders) + 1)
                   ELSE orderItems
  /\ stock' = IF n >= 3 THEN DecrementStock(stock, req[r].snapQty) ELSE stock
  /\ cart' = IF n >= 4 THEN [cart EXCEPT ![req[r].user] = ZeroQty] ELSE cart
  /\ UNCHANGED <<price, discount, users, tokens>>

\* a slip: every product of the order gets one unit back, whatever the quantity
IncrementStockByOne(st, qtys) == [p \in Products |-> IF qtys[p] > 0 THEN st[p] + 1 ELSE st[p]]

\* stock: { increment: item.quantity } for every item of the order read
IncrementStock(st, qtys) == [p \in Products |-> st[p] + qtys[p]]

\* the first n writes of the cancelOrder transaction, in program order:
\* product.update for every item, order.update
CancelOrderWrites(r, n) ==
  /\ stock' = IF n >= 1 THEN IncrementStock(stock, req[r].snapQty) ELSE stock
  /\ orders' = IF n >= 2 THEN [orders EXCEPT ![req[r].order].status = CANCELLED]
               ELSE orders
  /\ UNCHANGED <<price, discount, cart, orderItems, users, tokens>>

\* number of writes in the transaction of the method
TxLength(op) == IF op = "createOrder" THEN 4 ELSE 2

\* one more statement of the callback of prisma.$transaction has run;
\* its write stays private to the transaction
TxStep(r) ==
  /\ req[r].pc \in {"co_tx", "cancel_tx"}
  /\ req[r].stage < TxLength(req[r].op)
  /\ req' = [req EXCEPT ![r].stage = @ + 1]
  /\ UNCHANGED <<db, auth>>

\* the writes run one by one on the shared connection, outside a transaction:
\* those made before the throw stay
TxNoRollback(r) ==
  IF req[r].op = "createOrder" THEN CreateOrderWrites(r, req[r].stage)
  ELSE CancelOrderWrites(r, req[r].stage)

\* what a transaction that throws leaves in the database: nothing
TxRollback(r) == UNCHANGED db

\* a statement inside the callback throws (or the transaction times out)
\* after req[r].stage writes: prisma.$transaction rolls back and rethrows
TxFail(r) ==
  /\ req[r].pc \in {"co_tx", "cancel_tx"}
  /\ TxRollback(r)
  /\ UNCHANGED auth
  /\ req' = Finish(r, <<"error", "Transaction failed", req[r].stage>>)

\* the callback of createOrder returns: commit
CreateOrderCommit(r) ==
  /\ req[r].pc = "co_tx"
  /\ req[r].stage = TxLength("createOrder")
  /\ CreateOrderWrites(r, TxLength("createOrder"))
  /\ req' = Finish(r, Ok)

\* a slip in the table: a cancelled order may be reopened
validTransitionsReopen ==
  [s \in OrderStatus |->
     CASE s = PENDING -> {CONFIRMED, CANCELLED}
       [] s = CONFIRMED -> {PROCESSING, CANCELLED}
       [] s = PROCESSING -> {SHIPPED, CANCELLED}
       [] s = SHIPPED -> {DELIVERED, RETURNED}
       [] s = DELIVERED -> {RETURNED}
       [] s = CANCELLED -> {PENDING}
       [] s = RETURNED -> {}]

validTransitions ==
  [s \in OrderStatus |->
     CASE s = PENDING -> {CONFIRMED, CANCELLED}
       [] s = CONFIRMED -> {PROCESSING, CANCELLED}
       [] s = PROCESSING -> {SHIPPED, CANCELLED}
       [] s = SHIPPED -> {DELIVERED, RETURNED}
       [] s = DELIVERED -> {RETURNED}
       [] s = CANCELLED -> {}
       [] s = RETURNED -> {}]

\* updateOrderStatus, up to the write: order.findUnique, transition check;
\* e holds the arguments of the call
updateOrderStatus(e) ==
  LET o == e.order
      s == e.arg
  IN IF o \notin 1..Len(orders)
       THEN Done(e, Err("Order not found"))
     ELSE IF s \notin validTransitions[orders[o].status]
       THEN Done(e, <<"error", "Invalid status transition", orders[o].status, s>>)
     ELSE [e EXCEPT !.pc = "status_write", !.readStatus = orders[o].status]

\* a call of updateOrderStatus(o, s) straight on the service
UpdateStatusRead(r, o, s) ==
  /\ Free(r)
  /\ req' = [req EXCEPT ![r] =
       updateOrderStatus(Enter(r, "updateOrderStatus", NoUser, MissingProduct, 0, o, s))]
  /\ UNCHANGED <<db, auth>>

\* a slip: the update also refreshes the total from the current prices
UpdateStatusWriteRecompute(r) ==
  /\ req[r].pc = "status_write"
  /\ orders' = [orders EXCEPT
       ![req[r].order].status = req[r].arg,
       ![req[r].order].totalAmount =
          calculateCartSummary(OrderQty(req[r].order), price, discount).total]
  /\ req' = Finish(r, Ok)
  /\ UNCHANGED <<stock, price, discount, cart, orderItems, users, tokens>>

\* a slip: a change to CANCELLED gives the ordered quantities back
UpdateStatusWriteRestock(r) ==
  /\ req[r].pc = "status_write"
  /\ orders' = [orders EXCEPT ![req[r].order].status = req[r].arg]
  /\ stock' = IF req[r].arg = CANCELLED THEN IncrementStock(stock, OrderQty(req[r].order))
              ELSE stock
  /\ req' = Finish(r, Ok)
  /\ UNCHANGED <<price, discount, cart, orderItems, users, tokens>>

\* order.update({ status })
UpdateStatusWrite(r) ==
  /\ req[r].pc = "status_write"
  /\ orders' = [orders EXCEPT ![req[r].order].status = req[r].arg]
  /\ req' = Finish(r, Ok)
  /\ UNCHANGED <<stock, price, discount, cart, orderItems, users, tokens>>

\* updatePaymentStatus: one order.update({ paymentStatus }) by id, no check
\* of the value stored; Prisma throws when the id is in no row
updatePaymentStatus(r, o, ps) ==
  /\ Free(r)
  /\ LET e == Enter(r, "updatePaymentStatus", NoUser, MissingProduct, 0, o, ps) IN
     IF o \in 1..Len(orders)
       THEN /\ orders' = [orders EXCEPT ![o].paymentStatus = ps]
            /\ req' = [req EXCEPT ![r] = Done(e, Ok)]
       ELSE /\ orders' = orders
            /\ req' = [req EXCEPT ![r] = Done(e, Err("Record to update not found"))]
  /\ UNCHANGED <<stock, price, discount, cart, orderItems, users, tokens>>

\* a slip: the cancellable statuses follow the CANCELLED edges of the table
cancellableStatusesWide == {PENDING, CONFIRMED, PROCESSING}

cancellableStatuses == {PENDING, CONFIRMED}

\* a slip: the status is checked before the ownership
CancelReadStatusFirst(r, o, u) ==
  /\ Free(r)
  /\ LET e == Enter(r, "cancelOrder", u, MissingProduct, 0, o, "") IN
     req' = [req EXCEPT ![r] =
       IF o \notin 1..Len(orders)
         THEN Done(e, Err("Order not found"))
       ELSE IF orders[o].status \notin cancellableStatuses
         THEN Done(e, <<"error", "Cannot cancel order with status", orders[o].status>>)
       ELSE IF u # NoUser /\ orders[o].userId # u
         THEN Done(e, Err("Unauthorized to cancel this order"))
       ELSE [e EXCEPT !.pc = "cancel_tx", !.readStatus = orders[o].status,
                      !.snapQty = OrderQty(o)]]
  /\ UNCHANGED <<db, auth>>

\* cancelOrder, up to the transaction: order.findUnique with its items,
\* ownership check (when userId is given), status check
CancelRead(r, o, u) ==
  /\ Free(r)
  /\ LET e == Enter(r, "cancelOrder", u, MissingProduct, 0, o, "") IN
     req' = [req EXCEPT ![r] =
       IF o \notin 1..Len(orders)
         THEN Done(e, Err("Order not found"))
       ELSE IF u # NoUser /\ orders[o].userId # u
         THEN Done(e, Err("Unauthorized to cancel this order"))
       ELSE IF orders[o].status \notin cancellableStatuses
         THEN Done(e, <<"error", "Cannot cancel order with status", orders[o].status>>)
       ELSE [e EXCEPT !.pc = "cancel_tx", !.readStatus = orders[o].status,
                      !.snapQty = OrderQty(o)]]
  /\ UNCHANGED <<db, auth>>

\* the callback of cancelOrder returns: commit
CancelCommit(r) ==
  /\ req[r].pc = "cancel_tx"
  /\ req[r].stage = TxLength("cancelOrder")
  /\ CancelOrderWrites(r, TxLength("cancelOrder"))
  /\ req' = Finish(r, Ok)

\* ------------------------------------------------------- ProductService
\* updateProduct with data = { stock }: the controller refuses stock < 0
UpdateProductStock(r, p, s) ==
  /\ Free(r)
  /\ LET e == Enter(r, "updateProduct", NoUser, p, s, 0, "stock") IN
     IF s < 0
       THEN /\ stock' = stock
            /\ req' = [req EXCEPT ![r] = Done(e, Err("Stock cannot be negative"))]
     ELSE IF p \notin Products
       THEN /\ stock' = stock
            /\ req' = [req EXCEPT ![r] = Done(e, Err("Product not found"))]
     ELSE /\ stock' = [stock EXCEPT ![p] = s]
          /\ req' = [req EXCEPT ![r] = Done(e, Ok)]
  /\ UNCHANGED <<price, discount, cart, orders, orderItems, users, tokens>>

\* updateProduct with data = { price, discount }: the controller refuses
\* price <= 0 and a discount outside 0..100
UpdateProductPricing(r, p, pr, di) ==
  /\ Free(r)
  /\ LET e == Enter(r, "updateProduct", NoUser, p, pr, 0, "price")
         res == IF pr <= 0 THEN Err("Price must be greater than 0")
                ELSE IF di < 0 \/ di > 100 THEN Err("Discount must be between 0 and 100")
                ELSE IF p \notin Products THEN Err("Product not found")
                ELSE Ok
     IN /\ price' = IF res = Ok THEN [price EXCEPT ![p] = pr] ELSE price
        /\ discount' = IF res = Ok THEN [discount EXCEPT ![p] = di] ELSE discount
        /\ req' = [req EXCEPT ![r] = Done(e, res)]
  /\ UNCHANGED <<stock, cart, orders, orderItems, users, tokens>>

\* ---------------------------------------------------------- AuthService
\* login: user.findUnique by email, comparePassword, generateTokenPair with
\* the role stored at that moment
Login(r, a, passwordOk) ==
  /\ Free(r)
  /\ LET e == Enter(r, "login", a, MissingProduct, 0, 0, "") IN
     IF users[a] = NoRow \/ ~passwordOk
       THEN /\ tokens' = tokens
            /\ req' = [req EXCEPT ![r] = Done(e, Err("Invalid email or password"))]
       ELSE /\ tokens' = tokens \cup {[userId |-> a, role |-> users[a]]}
            /\ req' = [req EXCEPT ![r] = Done(e, Ok)]
  /\ UNCHANGED <<db, users>>

\* a slip: the role is taken from the payload of the verified token and the
\* user row is not read
authenticateTrustToken(tok) ==
  IF tok \notin tokens
    THEN [ok |-> FALSE, code |-> "INVALID_TOKEN"]
    ELSE [ok |-> TRUE, userId |-> tok.userId, role |-> tok.role]

\* authenticate: extract and verify the token, then user.findUnique on
\* decoded.userId; req.user is the row found
authenticate(tok) ==
  IF tok \notin tokens
    THEN [ok |-> FALSE, code |-> "INVALID_TOKEN"]
  ELSE IF users[tok.userId] = NoRow
    THEN [ok |-> FALSE, code |-> "USER_NOT_FOUND"]
    ELSE [ok |-> TRUE, userId |-> tok.userId, role |-> users[tok.userId]]

\* the middleware the order routes name
authenticateToken(tok) == authenticate(tok)

\* authorize('ADMIN') on req.user
authorizeAdmin(au) == au.role = ADMIN

\* PUT /users/:id/role behind requireAdmin: authenticate, authorize('ADMIN'),
\* the controller's role check, UserService.updateUserRole
UpdateUserRole(r, tok, target, newRole) ==
  /\ Free(r)
  /\ LET e == [Enter(r, "updateUserRole", target, MissingProduct, 0, 0, newRole) EXCEPT !.tok = tok]
         au == authenticate(tok)
         res == IF ~au.ok THEN <<"http", 401, au.code>>
                ELSE IF ~authorizeAdmin(au) THEN <<"http", 403, "INSUFFICIENT_PERMISSIONS">>
                ELSE IF newRole \notin Roles THEN <<"http", 400, "INVALID_ROLE">>
                ELSE IF target = au.userId THEN Err("Cannot change your own role")
                ELSE IF users[target] = NoRow THEN Err("User not found")
                ELSE Ok
     IN /\ users' = IF res = Ok THEN [users EXCEPT ![target] = newRole] ELSE users
        /\ req' = [req EXCEPT ![r] = Done(e, res)]
  /\ UNCHANGED <<db, tokens>>

\* DELETE /users/:id behind requireAdmin, UserService.deleteUser
DeleteUser(r, tok, target) ==
  /\ Free(r)
  /\ LET e == [Enter(r, "deleteUser", target, MissingProduct, 0, 0, "") EXCEPT !.tok = tok]
         au == authenticate(tok)
         res == IF ~au.ok THEN <<"http", 401, au.code>>
                ELSE IF ~authorizeAdmin(au) THEN <<"http", 403, "INSUFFICIENT_PERMISSIONS">>
                ELSE IF target = au.userId THEN Err("Cannot delete your own account")
                ELSE IF users[target] = NoRow THEN Err("User not found")
                ELSE Ok
     IN /\ users' = IF res = Ok THEN [users EXCEPT ![target] = NoRow] ELSE users
        /\ req' = [req EXCEPT ![r] = Done(e, res)]
  /\ UNCHANGED <<db, tokens>>

\* ------------------------------------------------------ OrderController
GetOrderRoute == "GET /orders/:id"

StatusRoute == "PUT /orders/:id/status"

OrderRoutes == {GetOrderRoute, StatusRoute}

\* a request on an order route: the authentication middleware, through its
\* user.findUnique; o is :id and a the status of the body
OrderRequest(r, route, tok, o, a) ==
  /\ Free(r)
  /\ LET e == [Enter(r, route, NoUser, MissingProduct, 0, o, a) EXCEPT !.tok = tok]
         au == authenticateToken(tok)
     IN req' = [req EXCEPT ![r] =
          IF ~au.ok THEN Done(e, <<"http", 401, au.code>>)
          ELSE [e EXCEPT !.pc = "authed", !.user = au.userId, !.authRole = au.role]]
  /\ UNCHANGED <<db, auth>>

Null == <<"null">>

\* a slip: the ownership filter is not added to the where clause
getOrderByIdAnyOwner(o, u) ==
  IF o \in 1..Len(orders)
    THEN <<"order", o, orders[o], {i \in orderItems : i.orderId = o}>>
    ELSE Null

\* OrderService.getOrderById: order.findUnique where id, and userId when a
\* userId is given; the order with its items, or null
getOrderById(o, u) ==
  IF o \in 1..Len(orders) /\ (u = NoUser \/ orders[o].userId = u)
    THEN <<"order", o, orders[o], {i \in orderItems : i.orderId = o}>>
    ELSE Null

\* OrderController.getOrder past the middleware
GetOrder(r) ==
  /\ req[r].pc = "authed"
  /\ req[r].op = GetOrderRoute
  /\ LET isAdmin == req[r].authRole = ADMIN
         order == getOrderById(req[r].order, IF isAdmin THEN NoUser ELSE req[r].user)
     IN req' = Finish(r, IF order = Null THEN <<"http", 404, "Order not found">>
                         ELSE <<"http", 200, order>>)
  /\ UNCHANGED <<db, auth>>

\* const isAdmin = req.user?.role === 'ADMIN'
IsAdmin(e) == e.authRole = ADMIN

\* OrderController.updateOrderStatus past the middleware, into
\* OrderService.updateOrderStatus up to its write
PutOrderStatus(r) ==
  /\ req[r].pc = "authed"
  /\ req[r].op = StatusRoute
  /\ req' = [req EXCEPT ![r] =
       IF ~IsAdmin(req[r]) THEN Done(req[r], <<"http", 403, "Admin access required">>)
       ELSE IF req[r].arg \notin OrderStatus
         THEN Done(req[r], <<"http", 400, "Invalid order status">>)
       ELSE updateOrderStatus(req[r])]
  /\ UNCHANGED <<db, auth>>

\* ------------------------------------------------------- specifications
\* two products on sale, A at 100.00 without discount and B at 79.99 with
\* 15 % off, MaxStock of each; no cart rows, no orders, no request running
Init ==
  /\ stock = [p \in Products |-> MaxStock]
  /\ price = [p \in Products |-> IF p = "A" THEN 10000 ELSE 7999]
  /\ discount = [p \in Products |-> IF p = "A" THEN 0 ELSE 15]
  /\ cart = [u \in Users |-> ZeroQty]
  /\ orders = <<>>
  /\ orderItems = {}
  /\ users = [a \in Accounts |-> IF a = Admin THEN ADMIN ELSE USER]
  /\ tokens = {}
  /\ req = [r \in Reqs |-> ReqIdle]

\* the scenario of two checkouts racing for one product: stock 5, and
\* both users hold 3 of it in their carts (u1 also holds the last B)
InitConc ==
  /\ stock = [p \in Products |-> IF p = "A" THEN 5 ELSE 1]
  /\ price = [p \in Products |-> IF p = "A" THEN 10000 ELSE 7999]
  /\ discount = [p \in Products |-> IF p = "A" THEN 0 ELSE 15]
  /\ cart = [u \in Users |-> [p \in Products |-> IF p = "A" THEN 3 ELSE IF u = "u1" THEN 1 ELSE 0]]
  /\ orders = <<>>
  /\ orderItems = {}
  /\ users = [a \in Accounts |-> IF a = Admin THEN ADMIN ELSE USER]
  /\ tokens = {}
  /\ req = [r \in Reqs |-> ReqIdle]

\* POST /orders while fewer than MaxOrders orders exist
PlaceOrder(r, u, pm) == Len(orders) < MaxOrders /\ CreateOrderValidate(r, u, pm)

\* POST /cart/items while another order can still be placed
Shop(r, u, p, q) == Len(orders) < MaxOrders /\ AddReadProduct(r, u, p, q)

\* PUT /products/:id { stock } while another order can still be placed
Restock(r, p, s) == Len(orders) < MaxOrders /\ UpdateProductStock(r, p, s)

\* order lifecycle, calls served one at a time: u1 shops, any user or the
\* admin cancels, the admin moves the status
Next ==
  \/ \E p \in Products, q \in 1..MaxStock : Shop(1, "u1", p, q)
  \/ AddFindExisting(1)
  \/ AddUpdate(1)
  \/ AddCreate(1)
  \/ \E u \in Users : PlaceOrder(1, u, "card")
  \/ TxStep(1)
  \/ TxFail(1)
  \/ CreateOrderCommit(1)
  \/ \E o \in 1..(Len(orders) + 1), s \in OrderStatus : UpdateStatusRead(1, o, s)
  \/ UpdateStatusWrite(1)
  \/ \E o \in 1..(Len(orders) + 1), u \in Users \cup {NoUser} : CancelRead(1, o, u)
  \/ CancelCommit(1)

Spec == Init /\ [][Next]_vars

\* checkout, calls served one at a time: u1 fills the cart and checks out
\* while the admin edits stock between the calls
NextCheckout ==
  \/ \E p \in ProductIds, q \in 1..MaxStock : Shop(1, "u1", p, q)
  \/ AddFindExisting(1)
  \/ AddUpdate(1)
  \/ AddCreate(1)
  \/ \E pm \in PaymentMethods : PlaceOrder(1, "u1", pm)
  \/ TxStep(1)
  \/ TxFail(1)
  \/ CreateOrderCommit(1)
  \/ \E p \in Products, s \in 0..MaxStock : Restock(1, p, s)

SpecCheckout == Init /\ [][NextCheckout]_vars

\* the user whose checkout request runs in slot r
ConcUser(r) == IF r = 1 THEN "u1" ELSE "u2"

\* the one POST /orders of the user of slot r
Checkout(r, pm) == req[r].pc = "idle" /\ CreateOrderValidate(r, ConcUser(r), pm)

\* two checkouts in flight at once, interleaved at every await
NextConc ==
  \E r \in Reqs :
    \/ \E pm \in PaymentMethods : Checkout(r, pm)
    \/ TxStep(r)
    \/ TxFail(r)
    \/ CreateOrderCommit(r)

SpecConc == InitConc /\ [][NextConc]_vars

\* the cart ledger alone, calls served one at a time: both users edit their
\* carts while the admin edits stock between the calls
NextCart ==
  \/ \E u \in Users, p \in ProductIds, q \in 1..MaxStock : AddReadProduct(1, u, p, q)
  \/ AddFindExisting(1)
  \/ AddUpdate(1)
  \/ AddCreate(1)
  \/ \E u \in Users, owner \in Users, p \in Products, q \in 0..MaxStock :
       UpdateFindItem(1, u, owner, p, q)
  \/ UpdateWrite(1)
  \/ \E u \in Users, owner \in Users, p \in Products : RemoveFindItem(1, u, owner, p)
  \/ RemoveDelete(1)
  \/ \E u \in Users : clearCart(1, u)
  \/ \E u \in Users : SyncRead(1, u)
  \/ \E p \in Products : SyncStep(1, p)
  \/ \E p \in ProductIds, s \in -1..MaxStock : UpdateProductStock(1, p, s)

SpecCart == Init /\ [][NextCart]_vars

\* the seeded shop: the administrator and two customers, u1 with one A in
\* the cart; nobody has logged in yet
InitAccess ==
  /\ stock = [p \in Products |-> MaxStock]
  /\ price = [p \in Products |-> IF p = "A" THEN 10000 ELSE 7999]
  /\ discount = [p \in Products |-> IF p = "A" THEN 0 ELSE 15]
  /\ cart = [u \in Users |-> IF u = "u1" THEN [ZeroQty EXCEPT !["A"] = 1] ELSE ZeroQty]
  /\ orders = <<>>
  /\ orderItems = {}
  /\ users = [a \in Accounts |-> IF a = Admin THEN ADMIN ELSE USER]
  /\ tokens = {}
  /\ req = [r \in Reqs |-> ReqIdle]

\* the tokens a client can present: those signed so far, or none that verifies
Presentable == tokens \cup {NoToken}

\* the accounts an administrator edits (u1, the account with the order, stays)
Managed == {"u2", Admin}

\* access to the order routes, calls served one at a time: u1 checks out,
\* accounts log in, administrators promote, demote and delete accounts, and
\* any holder of a token reads an order or asks for a status change
NextAccess ==
  \/ req[1].pc = "idle" /\ CreateOrderValidate(1, "u1", "card")
  \/ TxStep(1)
  \/ TxFail(1)
  \/ CreateOrderCommit(1)
  \/ \E a \in Accounts, ok \in BOOLEAN : Login(1, a, ok)
  \/ \E tok \in Presentable, target \in Managed, role \in Roles : UpdateUserRole(1, tok, target, role)
  \/ \E tok \in Presentable, target \in Managed : DeleteUser(1, tok, target)
  \/ \E tok \in Presentable, o \in 1..(Len(orders) + 1) : OrderRequest(1, GetOrderRoute, tok, o, "")
  \/ \E tok \in Presentable, o \in 1..(Len(orders) + 1), s \in OrderStatus :
       OrderRequest(1, StatusRoute, tok, o, s)
  \/ GetOrder(1)
  \/ PutOrderStatus(1)
  \/ UpdateStatusWrite(1)

SpecAccess == InitAccess /\ [][NextAccess]_vars

\* the price in cents and the discount percentage of a sale: 10.50, 25 % off
SalePrices == {1050}

SaleDiscounts == {25}

\* the life of one order, calls served one at a time: u1 fills the cart and
\* checks out once; afterwards the status and the payment status are moved,
\* the order is cancelled, products are repriced and the cart is used again
NextFrozen ==
  \/ \E p \in Products, q \in 1..MaxStock : orders = <<>> /\ AddReadProduct(1, "u1", p, q)
  \/ orders # <<>> /\ AddReadProduct(1, "u1", "A", 1)
  \/ AddFindExisting(1)
  \/ AddUpdate(1)
  \/ AddCreate(1)
  \/ clearCart(1, "u1")
  \/ \E addr \in Addresses : orders = <<>> /\ CreateOrderValidateData(1, "u1", "card", addr)
  \/ TxStep(1)
  \/ TxFail(1)
  \/ CreateOrderCommit(1)
  \/ \E s \in OrderStatus : orders # <<>> /\ UpdateStatusRead(1, 1, s)
  \/ UpdateStatusWrite(1)
  \/ \E ps \in PaymentStatus : orders # <<>> /\ updatePaymentStatus(1, 1, ps)
  \/ orders # <<>> /\ CancelRead(1, 1, "u1")
  \/ CancelCommit(1)
  \/ \E p \in Products, pr \in SalePrices, di \in SaleDiscounts :
       orders # <<>> /\ UpdateProductPricing(1, p, pr, di)

SpecFrozen == Init /\ [][NextFrozen]_vars

\* the cart of u1 and its summary, calls served one at a time: u1 edits and
\* reads the cart while the administrator edits stock and puts products on sale
NextSummary ==
  \/ \E p \in Products, q \in 1..MaxStock : AddReadProduct(1, "u1", p, q)
  \/ AddFindExisting(1)
  \/ AddUpdate(1)
  \/ AddCreate(1)
  \/ \E p \in Products, q \in 0..MaxStock : UpdateFindItem(1, "u1", "u1", p, q)
  \/ UpdateWrite(1)
  \/ \E p \in Products : RemoveFindItem(1, "u1", "u1", p)
  \/ RemoveDelete(1)
  \/ clearCart(1, "u1")
  \/ SyncRead(1, "u1")
  \/ \E p \in Products : SyncStep(1, p)
  \/ \E p \in Products, s \in 0..MaxStock : UpdateProductStock(1, p, s)
  \/ \E p \in Products, pr \in SalePrices, di \in SaleDiscounts : UpdateProductPricing(1, p, pr, di)
  \/ getCart(1, "u1")
  \/ getCartItemCount(1, "u1")

SpecSummary == Init /\ [][NextSummary]_vars

\* one customer adds to the cart from two tabs: two addToCart calls of u1 in
\* flight at once, interleaved at every await
NextAddRace ==
  \E r \in Reqs :
    \/ \E p \in Products, q \in 1..MaxStock : AddReadProduct(r, "u1", p, q)
    \/ AddFindExisting(r)
    \/ AddUpdate(r)
    \/ AddCreate(r)

SpecAddRace == Init /\ [][NextAddRace]_vars

\* the shop after u1 has ordered one A by card: the order is PENDING, one A
\* has left the stock, the cart of u1 is empty again
InitPlaced ==
  /\ stock = [p \in Products |-> IF p = "A" THEN MaxStock - 1 ELSE MaxStock]
  /\ price = [p \in Products |-> IF p = "A" THEN 10000 ELSE 7999]
  /\ discount = [p \in Products |-> IF p = "A" THEN 0 ELSE 15]
  /\ cart = [u \in Users |-> ZeroQty]
  /\ orders = <<[userId |-> "u1", status |-> PENDING, totalAmount |-> 10000,
                 shippingAddress |-> ShippingAddress("home"),
                 paymentMethod |-> "card", paymentStatus |-> PENDING]>>
  /\ orderItems = {[orderId |-> 1, productId |-> "A", quantity |-> 1,
                    price |-> OrderItemPrice(10000, 0)]}
  /\ users = [a \in Accounts |-> IF a = Admin THEN ADMIN ELSE USER]
  /\ tokens = {}
  /\ req = [r \in Reqs |-> ReqIdle]

\* the callers of cancelOrder on the order of u1: its owner, or an
\* administrator (no userId)
Cancellers == {"u1", NoUser}

\* the order of u1 is cancelled twice at once (a double submit, or the owner
\* and an administrator): two cancelOrder calls interleaved at every await
NextCancelRace ==
  \E r \in Reqs :
    \/ \E u \in Cancellers : req[r].pc = "idle" /\ CancelRead(r, 1, u)
    \/ TxStep(r)
    \/ TxFail(r)
    \/ CancelCommit(r)

SpecCancelRace == InitPlaced /\ [][NextCancelRace]_vars

\* the order of u1 is moved by administrators and cancelled, two calls in
\* flight at once, interleaved at every await; cancellations are asked for
\* until the A of the order is back in stock
NextOrderRace ==
  \E r \in Reqs :
    \/ \E s \in OrderStatus : UpdateStatusRead(r, 1, s)
    \/ UpdateStatusWrite(r)
    \/ \E u \in Cancellers : stock["A"] < MaxStock /\ CancelRead(r, 1, u)
    \/ TxStep(r)
    \/ TxFail(r)
    \/ CancelCommit(r)

SpecOrderRace == InitPlaced /\ [][NextOrderRace]_vars

\* u1, with one A in the cart, submits the checkout twice at once: two
\* createOrder calls of u1 interleaved at every await
NextDoubleCheckout ==
  \E r \in Reqs :
    \/ \E pm \in PaymentMethods : req[r].pc = "idle" /\ CreateOrderValidate(r, "u1", pm)
    \/ TxStep(r)
    \/ TxFail(r)
    \/ CreateOrderCommit(r)

SpecDoubleCheckout == InitAccess /\ [][NextDoubleCheckout]_vars

\* u1, with one A in the cart, checks out in one tab (slot 1) and goes on
\* editing the cart in another (slot 2), interleaved at every await
NextCheckoutEdit ==
  \/ \E pm \in PaymentMethods : req[1].pc = "idle" /\ CreateOrderValidate(1, "u1", pm)
  \/ TxStep(1)
  \/ TxFail(1)
  \/ CreateOrderCommit(1)
  \/ \E p \in Products, q \in 1..MaxStock : AddReadProduct(2, "u1", p, q)
  \/ AddFindExisting(2)
  \/ AddUpdate(2)
  \/ AddCreate(2)
  \/ \E p \in Products, q \in 1..MaxStock : UpdateFindItem(2, "u1", "u1", p, q)
  \/ UpdateWrite(2)

SpecCheckoutEdit == InitAccess /\ [][NextCheckoutEdit]_vars

\* checkout during a sale, calls served one at a time: the administrator
\* reprices products, u1 fills the cart and checks out
NextSale ==
  \/ \E p \in Products, q \in 1..MaxStock : Shop(1, "u1", p, q)
  \/ AddFindExisting(1)
  \/ AddUpdate(1)
  \/ AddCreate(1)
  \/ \E pm \in PaymentMethods : PlaceOrder(1, "u1", pm)
  \/ TxStep(1)
  \/ TxFail(1)
  \/ CreateOrderCommit(1)
  \/ \E p \in Products, pr \in SalePrices, di \in SaleDiscounts :
       Len(orders) < MaxOrders /\ UpdateProductPricing(1, p, pr, di)

SpecSale == Init /\ [][NextSale]_vars

\* ------------------------------------------------------------- properties
\* the edges of the order status state machine, as the specification lists them
TransitionTable ==
  {<<PENDING, CONFIRMED>>, <<PENDING, CANCELLED>>,
   <<CONFIRMED, PROCESSING>>, <<CONFIRMED, CANCELLED>>,
   <<PROCESSING, SHIPPED>>, <<PROCESSING, CANCELLED>>,
   <<SHIPPED, DELIVERED>>, <<SHIPPED, RETURNED>>,
   <<DELIVERED, RETURNED>>}

C2_ExactlyOneCheckoutSucceeds ==
  /\ stock["A"] >= 0
  /\ (\A r \in Reqs : /\ req[r].pc = "done"
                      /\ req[r].op = "createOrder"
                      /\ (IsErr(req[r].result) => req[r].result[2] # "Transaction failed"))
       => \E w \in Reqs :
            /\ req[w].result = Ok
            /\ \A l \in Reqs \ {w} :
                 req[l].result = <<"error", "Cart validation failed", FALSE, {"A"}>>
            /\ stock["A"] = 2

\* the only change createOrder of slot r makes to the database, all of it:
\* one more order of the user, its items with the quantities read from the
\* cart, the stock lowered by exactly these quantities, the user's cart empty
CreateOrderFullEffect(r) ==
  LET u == req[r].user
      id == Len(orders) + 1
      new == orderItems' \ orderItems
  IN /\ Len(orders') = id
     /\ SubSeq(orders', 1, Len(orders)) = orders
     /\ orders'[id].userId = u
     /\ orderItems \subseteq orderItems'
     /\ new # {}
     /\ \A i \in new : i.orderId = id /\ i.quantity > 0
     /\ \A p \in Products :
          /\ Cardinality({i \in new : i.productId = p}) <= 1
          /\ stock'[p] = stock[p] - SumOver({i \in new : i.productId = p},
                                            [i \in new |-> i.quantity])
     /\ cart'[u] = ZeroQty
     /\ \A v \in Users \ {u} : cart'[v] = cart[v]
     /\ UNCHANGED <<price, discount>>

\* C3: every step of a createOrder call, a throw inside the transaction
\* included, either leaves orders, order items, stock and carts as they were
\* or applies the whole order at once; no step shows a part of it.
C3_CreateOrderAtomic ==
  [][\A r \in Reqs :
       (req'[r] # req[r] /\ (req[r].pc = "co_tx" \/ req'[r].op = "createOrder"))
         => (UNCHANGED db \/ (IsOk(req'[r].result) /\ CreateOrderFullEffect(r)))
    ]_vars

\* a createOrder threw after three of its four writes and nothing of it shows
C3_Witness ==
  \E r \in Reqs :
    /\ req[r].op = "createOrder"
    /\ req[r].result = <<"error", "Transaction failed", 3>>
    /\ orders = <<>>
    /\ orderItems = {}
    /\ stock["A"] = 5
    /\ cart[req[r].user]["A"] = 3

\* C4 (as claimed): no product ever has a negative stock.
C4_StockNeverNegative == \A p \in Products : stock[p] >= 0

\* the total of a cart in cents: sum of price * qty less the discount
\* percentage, rounded half up to the cent once, over products A and B
ExpectedTotal(qtys) ==
  (price["A"] * qtys["A"] * (100 - discount["A"])
     + price["B"] * qtys["B"] * (100 - discount["B"]) + 50) \div 100

\* C5: the commit of createOrder appends exactly one order of the caller
\* with status PENDING and payment status PENDING (card or cash) and the
\* cart's total, adds one order item per cart row with its product and
\* quantity, lowers each product's stock by the ordered quantity (products
\* not in the cart keep theirs) and empties the caller's cart.
C5_CreateOrderEffect ==
  [][(req[1].pc = "co_tx" /\ req'[1].pc = "done" /\ IsOk(req'[1].result)) =>
       LET u == req[1].user
           id == Len(orders) + 1
       IN /\ orders' = Append(orders, orders'[id])
          /\ orders'[id].userId = u
          /\ orders'[id].status = PENDING
          /\ orders'[id].paymentStatus = PENDING
          /\ orders'[id].paymentMethod = req[1].arg
          /\ orders'[id].totalAmount = ExpectedTotal(cart[u])
          /\ orderItems \subseteq orderItems'
          /\ {<<i.orderId, i.productId, i.quantity>> : i \in orderItems' \ orderItems}
               = {<<id, p, cart[u][p]>> : p \in {x \in Products : cart[u][x] > 0}}
          /\ \A p \in Products : stock'[p] = stock[p] - cart[u][p]
          /\ cart'[u] = ZeroQty
          /\ \A v \in Users \ {u} : cart'[v] = cart[v]
          /\ UNCHANGED <<price, discount>>
    ]_vars

\* a cash checkout of 2 A at 100.00 went through: total 200.00, no A left,
\* B untouched, cart empty
C5_Witness ==
  /\ req[1].op = "createOrder"
  /\ req[1].result = Ok
  /\ req[1].arg = "cash"
  /\ Len(orders) = 1
  /\ orders[1].status = PENDING
  /\ orders[1].paymentStatus = PENDING
  /\ orders[1].totalAmount = 20000
  /\ \E i \in orderItems : i.orderId = 1 /\ i.productId = "A" /\ i.quantity = 2
  /\ stock = [p \in Products |-> IF p = "A" THEN 0 ELSE MaxStock]
  /\ cart["u1"] = ZeroQty

\* the quantity of product p on the items of order o
ItemQty(o, p) ==
  SumOver({i \in orderItems : i.orderId = o /\ i.productId = p},
          [i \in orderItems |-> i.quantity])

\* C6: a step of a cancelOrder call changes neither stock nor orders, or it
\* is the commit, which at once sets the order's status to CANCELLED and
\* raises each product's stock by exactly the quantity of its item in the
\* order (products not in the order keep their stock).
C6_CancelRestoresStock ==
  [][(req[1].op = "cancelOrder" /\ req[1].pc = "cancel_tx" /\ req'[1] # req[1]) =>
       \/ UNCHANGED <<stock, orders>>
       \/ /\ req'[1].result = Ok
          /\ orders' = [orders EXCEPT ![req[1].order].status = CANCELLED]
          /\ \A p \in Products : stock'[p] = stock[p] + ItemQty(req[1].order, p)
          /\ UNCHANGED <<cart, orderItems, price, discount>>
    ]_vars

\* an order holding 2 A was cancelled from CONFIRMED and the 2 A are back
C6_Witness ==
  /\ req[1].op = "cancelOrder"
  /\ req[1].result = Ok
  /\ req[1].readStatus = CONFIRMED
  /\ orders[1].status = CANCELLED
  /\ ItemQty(1, "A") = 2
  /\ ItemQty(1, "B") = 0
  /\ stock = [p \in Products |-> MaxStock]

\* C7 (as claimed): whichever step changes an order's stored status to
\* CANCELLED also raises each product's stock by the quantity of that
\* product on the order's items.
C7_EveryCancellationRestoresStock ==
  [][\A o \in 1..Len(orders) :
       (orders[o].status # CANCELLED /\ orders'[o].status = CANCELLED)
         => \A p \in Products : stock'[p] = stock[p] + ItemQty(o, p)
    ]_vars

\* C8: cancelOrder on an order whose stored status is not PENDING or
\* CONFIRMED throws and changes neither orders nor stock; it reaches its
\* transaction, and commits, only for an order stored as PENDING or CONFIRMED.
C8_CancelOnlyPendingOrConfirmed ==
  [][/\ (Free(1) /\ req'[1] # req[1] /\ req'[1].op = "cancelOrder"
           /\ req'[1].order \in 1..Len(orders)
           /\ orders[req'[1].order].status \notin {PENDING, CONFIRMED})
            => /\ req'[1].pc = "done"
               /\ IsErr(req'[1].result)
               /\ UNCHANGED <<orders, stock>>
     /\ (req[1].op = "cancelOrder" /\ req[1].pc = "cancel_tx" /\ req'[1] # req[1])
          => orders[req[1].order].status \in {PENDING, CONFIRMED}
    ]_vars

\* a cancelOrder on a SHIPPED order was refused
C8_Witness ==
  /\ req[1].op = "cancelOrder"
  /\ req[1].pc = "done"
  /\ req[1].result = <<"error", "Cannot cancel order with status", SHIPPED>>
  /\ orders[req[1].order].status = SHIPPED

\* C9: the write of a successful addToCart, insert or increment, leaves the
\* row at the old quantity plus the added one, and that is at most the
\* product's stock.
C9_AddWithinStock ==
  [][(req[1].op = "addToCart" /\ req[1].pc # "done" /\ req'[1].pc = "done"
        /\ IsOk(req'[1].result)) =>
       LET u == req[1].user
           p == req[1].prod
       IN /\ cart'[u][p] = cart[u][p] + req[1].qty
          /\ cart'[u][p] <= stock[p]
    ]_vars

\* addToCart of 1 raised an existing row to 2, the whole stock
C9_Witness ==
  /\ req[1].op = "addToCart"
  /\ req[1].result = Ok
  /\ req[1].qty = 1
  /\ req[1].prod = "A"
  /\ cart["u1"]["A"] = 2
  /\ stock["A"] = 2

\* the cart rows after syncWithStock: gone at stock 0, clamped above stock
SyncedCart(qtys, st) ==
  [p \in Products |->
     IF st[p] = 0 THEN 0 ELSE IF qtys[p] > st[p] THEN st[p] ELSE qtys[p]]

\* C10 (as claimed): createOrder syncs the cart with the stock before it
\* validates, so it fails only when nothing is left after the sync and
\* otherwise builds the order from the synced quantities.
C10_SyncBeforeValidate ==
  [][(Free(1) /\ req'[1] # req[1] /\ req'[1].op = "createOrder") =>
       LET synced == SyncedCart(cart[req'[1].user], stock)
       IN IF synced = ZeroQty
            THEN req'[1].pc = "done" /\ IsErr(req'[1].result)
            ELSE req'[1].pc = "co_tx" /\ req'[1].snapQty = synced
    ]_vars

\* C11 (as claimed): createOrder on an empty cart throws the cart-empty
\* error, and on a cart with a row above its product's stock the validation
\* error that names exactly the rows above stock; neither changes orders,
\* order items, stock or carts.
C11_PreconditionFailures ==
  [][(Free(1) /\ req'[1] # req[1] /\ req'[1].op = "createOrder") =>
       LET qtys == cart[req'[1].user] IN
         /\ CartIsEmpty(qtys) =>
              /\ req'[1].pc = "done"
              /\ req'[1].result = Err("Cart is empty")
              /\ UNCHANGED db
         /\ (~CartIsEmpty(qtys) /\ OverStock(qtys, stock) # {}) =>
              /\ req'[1].pc = "done"
              /\ req'[1].result = <<"error", "Cart validation failed", FALSE, OverStock(qtys, stock)>>
              /\ UNCHANGED db
    ]_vars

\* the elements of a list
Elems(seq) == {seq[i] : i \in 1..Len(seq)}

\* C12: a syncCartWithStock call that no other call interleaves ends with
\* the caller's rows at stock 0 gone, the rows above a positive stock at
\* exactly that stock, every other row and every other cart as before, and
\* returns the removed products and the adjusted products with their new
\* quantity; every row left has 1 <= quantity <= stock; a call on a cart
\* that is already in that form (as after a first call) changes nothing and
\* returns two empty lists.
C12_SyncWithStock ==
  /\ [][/\ (req[1].pc = "sync_loop" /\ req'[1].pc = "done") =>
            LET u == req[1].user
                before == req[1].snapQty
                res == req'[1].result
            IN /\ Len(res) = 3 /\ res[1] = "ok"
               /\ cart'[u] = SyncedCart(before, stock)
               /\ \A v \in Users \ {u} : cart'[v] = cart[v]
               /\ Elems(res[2]) = {p \in Products : before[p] > 0 /\ stock[p] = 0}
               /\ Len(res[2]) = Cardinality(Elems(res[2]))
               /\ Elems(res[3]) = {<<p, stock[p]>> : p \in {x \in Products : stock[x] > 0 /\ before[x] > stock[x]}}
               /\ Len(res[3]) = Cardinality(Elems(res[3]))
               /\ \A p \in Products : cart'[u][p] > 0 => (1 <= cart'[u][p] /\ cart'[u][p] <= stock[p])
               /\ (SyncedCart(before, stock) = before) =>
                    (res = <<"ok", <<>>, <<>>>> /\ cart'[u] = before)
               /\ UNCHANGED <<stock, price, discount, orders, orderItems>>
        /\ (Free(1) /\ req'[1] # req[1] /\ req'[1].op = "syncCartWithStock") =>
            /\ UNCHANGED db
            /\ (cart[req'[1].user] = ZeroQty) => req'[1].result = <<"ok", <<>>, <<>>>>
       ]_vars
  /\ [](req[1].op = "syncCartWithStock" /\ req[1].pc = "done" /\ IsOk(req[1].result)
          => SyncedCart(cart[req[1].user], stock) = cart[req[1].user])

\* a sync removed the row of A (stock 0) and cut the row of B from 2 to 1
C12_Witness ==
  /\ req[1].op = "syncCartWithStock"
  /\ req[1].pc = "done"
  /\ req[1].result = <<"ok", <<"A">>, <<<<"B", 1>>>>>>
  /\ stock = [p \in Products |-> IF p = "A" THEN 0 ELSE 1]
  /\ cart[req[1].user] = [p \in Products |-> IF p = "A" THEN 0 ELSE 1]

\* the answer to GET /orders/:id for an id that is in no row
NotFoundAnswer == <<"http", 404, "Order not found">>

\* C13: GET /orders/:id, which asks getOrderById with the caller as scope
\* unless the caller's role is ADMIN, answers a caller who does not own the
\* order exactly as it answers an id that does not exist: 404 'Order not
\* found' without order data, never 403; the owner, and an administrator
\* (scope left out) whoever the owner is, get the order and its items.
C13_ForeignOrderIsNotFound ==
  [][(req[1].pc = "authed" /\ req[1].op = GetOrderRoute /\ req'[1] # req[1]) =>
       LET o == req[1].order
           caller == req[1].user
           scope == IF users[caller] = ADMIN THEN NoUser ELSE caller
           exists == o \in 1..Len(orders)
           res == req'[1].result
       IN /\ req'[1].pc = "done"
          /\ UNCHANGED db
          /\ Len(res) = 3 /\ res[1] = "http" /\ res[2] # 403
          /\ ~exists => res = NotFoundAnswer
          /\ (exists /\ scope # NoUser /\ orders[o].userId # scope) => res = NotFoundAnswer
          /\ (exists /\ (scope = NoUser \/ orders[o].userId = scope)) =>
               res = <<"http", 200, <<"order", o, orders[o], {i \in orderItems : i.orderId = o}>>>>
    ]_vars

\* u2, a customer, asked for the order of u1 and got the answer of a missing id
C13_Witness ==
  /\ req[1].op = GetOrderRoute
  /\ req[1].pc = "done"
  /\ req[1].user = "u2"
  /\ users["u2"] = USER
  /\ req[1].order \in 1..Len(orders)
  /\ orders[req[1].order].userId = "u1"
  /\ req[1].result = NotFoundAnswer

C14_ForeignCancelForbidden ==
  [][(Free(1) /\ req'[1] # req[1] /\ req'[1].op = "cancelOrder"
        /\ req'[1].order \in 1..Len(orders)) =>
       LET o == req'[1].order
           u == req'[1].user
       IN /\ (u # NoUser /\ orders[o].userId # u) =>
               /\ req'[1].pc = "done"
               /\ req'[1].result = Err("Unauthorized to cancel this order")
               /\ UNCHANGED db
          /\ (u = NoUser \/ orders[o].userId = u) =>
               /\ req'[1].result # Err("Unauthorized to cancel this order")
               /\ (req'[1].pc = "cancel_tx") = (orders[o].status \in {PENDING, CONFIRMED})
    ]_vars

\* u2 asked to cancel the SHIPPED order of u1 and was told it is not theirs
C14_Witness ==
  /\ req[1].op = "cancelOrder"
  /\ req[1].pc = "done"
  /\ req[1].user = "u2"
  /\ req[1].order \in 1..Len(orders)
  /\ orders[req[1].order].userId = "u1"
  /\ orders[req[1].order].status = SHIPPED
  /\ req[1].result = Err("Unauthorized to cancel this order")

\* C16: no step removes an order, and every step leaves every existing
\* order as it was except for its status and payment status (total, owner,
\* shipping address and payment method stay) and leaves the order's items,
\* with their product, quantity and unit price, exactly as they were:
\* status and payment updates, cancellation, cart calls and later changes of
\* a product's price or discount included.
C16_OrderFrozen ==
  [][/\ Len(orders') >= Len(orders)
     /\ \A o \in 1..Len(orders) :
          /\ [orders'[o] EXCEPT !.status = orders[o].status,
                                !.paymentStatus = orders[o].paymentStatus] = orders[o]
          /\ {i \in orderItems' : i.orderId = o} = {i \in orderItems : i.orderId = o}
    ]_vars

\* an order of one B at 79.99 less 15 % was cancelled and refunded and B was
\* repriced to 10.50: total and unit price are those of the checkout
C16_Witness ==
  /\ Len(orders) = 1
  /\ orders[1].status = CANCELLED
  /\ orders[1].paymentStatus = REFUNDED
  /\ orders[1].totalAmount = 6799
  /\ orders[1].shippingAddress = ShippingAddress("office")
  /\ price["B"] = 1050
  /\ cart["u1"]["A"] = 1
  /\ {i \in orderItems : i.orderId = 1}
       = {[orderId |-> 1, productId |-> "B", quantity |-> 1, price |-> 679915]}

\* C17: no step of an updateOrderStatus call, whatever the order and the
\* requested status and whether the call succeeds or throws, changes the
\* stock of any product.
C17_StatusUpdateKeepsStock ==
  [][(\/ (Free(1) /\ req'[1] # req[1] /\ req'[1].op = "updateOrderStatus")
      \/ (req[1].op = "updateOrderStatus" /\ req[1].pc = "status_write" /\ req'[1] # req[1]))
       => \A p \in Products : stock'[p] = stock[p]
    ]_vars

\* updateOrderStatus moved an order holding A to CANCELLED and the stock of
\* A is still short of the ordered quantity
C17_Witness ==
  /\ req[1].op = "updateOrderStatus"
  /\ req[1].result = Ok
  /\ req[1].arg = CANCELLED
  /\ orders[req[1].order].status = CANCELLED
  /\ ItemQty(req[1].order, "A") > 0
  /\ stock["A"] = MaxStock - ItemQty(req[1].order, "A")

\* C18: whatever addToCart, updateCartItem, removeFromCart, clearCart and
\* syncCartWithStock calls came before, the totalItems of the summary that
\* getCart returns is the sum of the quantities of the caller's rows, and
\* getCartItemCount returns the same number, 0 for a cart without rows.
C18_TotalItemsIsSumOfQuantities ==
  [][(Free(1) /\ req'[1] # req[1]) =>
       LET u == req'[1].user IN
         /\ req'[1].op = "getCart" =>
              /\ req'[1].result[2].totalItems = cart[u]["A"] + cart[u]["B"]
              /\ UNCHANGED db
         /\ req'[1].op = "getCartItemCount" =>
              /\ req'[1].result = <<"ok", cart[u]["A"] + cart[u]["B"]>>
              /\ UNCHANGED db
    ]_vars

\* getCart on a cart of 2 A and 1 B, built by an add, an update and a sync,
\* reported 3 items
C18_Witness ==
  /\ req[1].op = "getCart"
  /\ req[1].pc = "done"
  /\ req[1].result[2].totalItems = 3
  /\ cart["u1"] = [p \in Products |-> IF p = "A" THEN 2 ELSE 1]
  /\ stock["B"] = 1

\* the sums of a cart over its two rows, in 1/100 cent: price * quantity, and
\* price * quantity * discount percentage / 100
RawSubtotal(qtys) == price["A"] * qtys["A"] * 100 + price["B"] * qtys["B"] * 100

RawDiscount(qtys) ==
  price["A"] * qtys["A"] * discount["A"] + price["B"] * qtys["B"] * discount["B"]

C20_UnitPriceRounded ==
  [][(req[1].pc = "co_tx" /\ req'[1].pc = "done" /\ IsOk(req'[1].result)) =>
       \A i \in orderItems' \ orderItems :
         /\ i.price = 100 * ((price[i.productId] * (100 - discount[i.productId]) + 50) \div 100)
         /\ discount[i.productId] = 0 => i.price = 100 * price[i.productId]
    ]_vars

\* C21: addToCart for a product that does not exist is answered with 404
\* (not found); addToCart with the product's stock below the quantity
\* already in the caller's cart plus the added one never reaches a write and
\* is answered with 400 (insufficient stock); in both cases no cart row, and
\* nothing else in the store, is changed.
C21_AddFailuresKeepCart ==
  [][(req'[1].op = "addToCart" /\ req'[1] # req[1]) =>
       LET u == req'[1].user
           p == req'[1].prod
           q == req'[1].qty
       IN /\ p \notin Products =>
               /\ req'[1].pc = "done"
               /\ AddToCartStatus(req'[1].result) = 404
               /\ UNCHANGED db
          /\ (p \in Products /\ stock[p] < cart[u][p] + q) =>
               /\ req'[1].pc \in {"add_find", "done"}
               /\ req[1].pc = "add_find" => req'[1].pc = "done"
               /\ req'[1].pc = "done" => AddToCartStatus(req'[1].result) = 400
               /\ UNCHANGED db
    ]_vars

\* u1 holds 1 A, the stock of A is 1, and adding 1 more was refused
C21_Witness ==
  /\ req[1].op = "addToCart"
  /\ req[1].pc = "done"
  /\ req[1].user = "u1"
  /\ req[1].prod = "A"
  /\ req[1].qty = 1
  /\ req[1].result = <<"error", "Cannot add more items", 0>>
  /\ cart["u1"]["A"] = 1
  /\ stock["A"] = 1

\* C22: updateCartItem with a quantity that is not positive fails as an
\* invalid argument (400); on a row that does not exist or is another
\* user's it fails as not found (404); with a quantity above the product's
\* stock it fails as insufficient stock (400); a failing call changes no
\* cart row of any user, and a successful one sets the addressed row to the
\* quantity and changes nothing else.
C22_UpdateItemOutcomes ==
  [][(req'[1].op = "updateCartItem" /\ req'[1] # req[1]) =>
       LET u == req'[1].user
           owner == req'[1].arg
           p == req'[1].prod
           q == req'[1].qty
           res == req'[1].result
           failed == req'[1].pc = "done" /\ IsErr(res) /\ UNCHANGED db
       IN IF Free(1)
            THEN IF q <= 0
                   THEN failed /\ res = Err("Quantity must be greater than 0")
                          /\ UpdateCartItemStatus(q, res) = 400
                 ELSE IF owner # u \/ cart[owner][p] = 0
                   THEN failed /\ UpdateCartItemStatus(q, res) = 404
                 ELSE IF q > stock[p]
                   THEN failed /\ res = <<"error", "Only items available in stock", stock[p]>>
                          /\ UpdateCartItemStatus(q, res) = 400
                 ELSE req'[1].pc = "upd_write" /\ UNCHANGED db
            ELSE /\ req'[1].pc = "done"
                 /\ IsOk(res)
                 /\ UpdateCartItemStatus(q, res) = 200
                 /\ q <= stock[p]
                 /\ cart' = [cart EXCEPT ![u][p] = q]
                 /\ UNCHANGED <<stock, price, discount, orders, orderItems>>
    ]_vars

\* u1 asked for 2 of the row that u2 holds of A, with 2 A in stock, and was
\* told that there is no such cart item
C22_Witness ==
  /\ req[1].op = "updateCartItem"
  /\ req[1].pc = "done"
  /\ req[1].user = "u1"
  /\ req[1].arg = "u2"
  /\ req[1].prod = "A"
  /\ req[1].qty = 2
  /\ req[1].result = Err("Cart item not found")
  /\ cart["u2"]["A"] = 1
  /\ stock["A"] = 2

\* C23: under every interleaving of addToCart calls of one user, a cart row
\* is inserted only while the user has no row of that product (the insert of
\* a request that lost the race fails and changes nothing), and an
\* addToCart that finds a row of the product goes on to update that row or
\* fails, never to an insert: no (user, product) pair ever gets a second row.
C23_OneRowPerProduct ==
  [][\A r \in Reqs :
       LET u == req[r].user
           p == req[r].prod
       IN /\ (req[r].pc = "add_create" /\ req'[r].pc = "done") =>
               IF cart[u][p] = 0
                 THEN IsOk(req'[r].result) /\ cart' = [cart EXCEPT ![u][p] = req[r].qty]
                 ELSE IsErr(req'[r].result) /\ cart' = cart
          /\ (req[r].pc = "add_find" /\ req'[r] # req[r] /\ cart[u][p] > 0) =>
               req'[r].pc \in {"add_update", "done"}
          /\ (req[r].pc = "add_update" /\ req'[r].pc = "done" /\ IsOk(req'[r].result)) =>
               cart[u][p] > 0
    ]_vars

\* two addToCart calls of u1 for A raced on an empty cart: the one for 2 A
\* inserted the row, the insert of the one for 1 A was rejected
C23_Witness ==
  /\ req[1].op = "addToCart" /\ req[2].op = "addToCart"
  /\ req[1].prod = "A" /\ req[2].prod = "A"
  /\ req[1].qty = 2 /\ req[2].qty = 1
  /\ req[1].result = Ok
  /\ req[2].result = Err("Unique constraint failed")
  /\ cart["u1"]["A"] = 2

\* C24 (as claimed): under every interleaving of updateOrderStatus and
\* cancelOrder calls on one order, each change of the stored status is an
\* edge of the transition table from the status stored just before the
\* write, and a change made by cancelOrder starts from PENDING or CONFIRMED.
C24_WritesFollowStoredStatus ==
  [][\A o \in 1..Len(orders) :
       orders'[o].status # orders[o].status =>
         /\ <<orders[o].status, orders'[o].status>> \in TransitionTable
         /\ (\E r \in Reqs : req[r].pc = "cancel_tx" /\ req'[r].pc = "done")
              => orders[o].status \in {PENDING, CONFIRMED}
    ]_vars

\* C25 (as claimed): under every interleaving of cancelOrder calls on the
\* order of u1, which holds one A, the stock of A rises in total by that one
\* A, to the stock before the order, and the stock of B stays as it was.
C25_StockRestoredOnce ==
  /\ stock["A"] <= MaxStock
  /\ stock["B"] = MaxStock

\* C26 (as claimed): when u1 sends two createOrder calls at once over a cart
\* of one A, under every interleaving at most one order is created and the
\* stock of A goes down at most once, by the one A of the cart.
C26_CartOrderedOnce ==
  /\ Len(orders) <= 1
  /\ stock["A"] >= MaxStock - 1
  /\ stock["B"] = MaxStock

\* C27 (as claimed): when a createOrder of u1 commits, every cart row of u1
\* that it deletes is an item of the new order with the quantity the row
\* has at that moment, and that quantity is what leaves the stock, whatever
\* addToCart or updateCartItem calls of u1 committed since the cart was read.
C27_DeletedRowsAreOrdered ==
  [][(req[1].pc = "co_tx" /\ req'[1].pc = "done" /\ IsOk(req'[1].result)) =>
       \A p \in Products :
         /\ cart[req[1].user][p] > 0 =>
              \E i \in orderItems' \ orderItems :
                i.productId = p /\ i.quantity = cart[req[1].user][p]
         /\ stock'[p] = stock[p] - cart[req[1].user][p]
    ]_vars

\* the units of product p held by the orders that are not CANCELLED
HeldByOrders(p) ==
  SumOver({o \in 1..Len(orders) : orders[o].status # CANCELLED},
          [o \in 1..Len(orders) |-> ItemQty(o, p)])

\* C28 (as claimed): with no stock edits by an administrator, in every state
\* reached by addToCart, createOrder, updateOrderStatus and cancelOrder
\* calls, the stock of each product plus the units of it held by the orders
\* that are not CANCELLED is the product's initial stock.
C28_StockConserved ==
  \A p \in Products : stock[p] + HeldByOrders(p) = MaxStock

\* how far along its life an order of a given status is: the number of
\* status changes of the longest way from PENDING to it
LifecycleRank ==
  [s \in OrderStatus |->
     CASE s = PENDING -> 0
       [] s = CONFIRMED -> 1
       [] s = PROCESSING -> 2
       [] s = SHIPPED -> 3
       [] s = DELIVERED -> 4
       [] s = RETURNED -> 5
       [] s = CANCELLED -> 5]

\* C29: with calls served one at a time, every change of an order's stored
\* status moves it strictly further along its life (so it never comes back
\* to a status it has left, PENDING included, and changes at most 5 times),
\* and a CANCELLED or RETURNED order never changes its status.
C29_LifecycleAcyclic ==
  [][\A o \in 1..Len(orders) :
       orders'[o].status # orders[o].status =>
         /\ LifecycleRank[orders'[o].status] > LifecycleRank[orders[o].status]
         /\ orders[o].status \notin {CANCELLED, RETURNED}
    ]_vars

\* an order has gone all the way: the fifth change took it from DELIVERED
\* to RETURNED
C29_Witness ==
  /\ Len(orders) = 1
  /\ orders[1].status = RETURNED
  /\ req[1].op = "updateOrderStatus"
  /\ req[1].readStatus = DELIVERED
  /\ req[1].result = Ok

\* the sum of unit price * quantity over the items of order o, in 1/100 cent
OrderLinesRaw(o) ==
  SumOver({i \in orderItems : i.orderId = o},
          [i \in orderItems |-> i.price * i.quantity])

====
